---- MODULE Spec2Model ----
(***************************************************************************)
(* Model of src/python/oracrawl.py: the recursive Oracle view crawler.     *)
(*                                                                         *)
(* Strings are sequences of one-character strings, so that upper(),       *)
(* split("."), split() and the code-point order used by sorted() are       *)
(* computed, not assumed.  The catalog (ALL_OBJECTS / ALL_VIEWS) is chosen *)
(* in Init; a view's text is represented by what sqlglot's walk yields for *)
(* it: the Table nodes' sql() in order of appearance and the Func names.   *)
(***************************************************************************)
EXTENDS Integers, Sequences, FiniteSets, TLC

VARIABLES
    catalog,           \* ALL_OBJECTS / ALL_VIEWS, keyed by upper-cased OWNER.NAME
    pc,                \* position of the program
    fq_object,         \* the argument of the running / last crawl_object call
    default_schema,    \* the default_schema argument threaded through _crawl
    stack,             \* the _crawl activations that are inside their for loop
    SEEN_OBJECTS,
    found_views,
    found_tables,
    found_functions,
    view_ddl_map,
    dependency_graph,
    queried,           \* log of the binds sent to ALL_OBJECTS, per crawl
    extracted,         \* log of the fq_names extract_objects_from_sql ran for
    ncrawls,           \* number of crawl_object calls made so far
    files              \* what the artifact writers have written

vars == << catalog, pc, fq_object, default_schema, stack, SEEN_OBJECTS,
           found_views, found_tables, found_functions, view_ddl_map,
           dependency_graph, queried, extracted, ncrawls, files >>

-----------------------------------------------------------------------------
(* Bounds *)

MaxDdlLen == 2      \* Table nodes in one view definition
MaxCrawls == 2      \* crawl_object calls in one process

-----------------------------------------------------------------------------
(* Strings *)

DOT == "."
SPACE == " "

UpperChar(c) ==
    CASE c = "a" -> "A"
      [] c = "b" -> "B"
      [] c = "r" -> "R"
      [] c = "s" -> "S"
      [] c = "t" -> "T"
      [] c = "x" -> "X"
      [] OTHER   -> c

\* str.upper()
Upper(s) == [i \in 1..Len(s) |-> UpperChar(s[i])]

\* code points, as compared by sorted()
Ord(c) ==
    CASE c = " " -> 32
      [] c = "$" -> 36
      [] c = "." -> 46
      [] c = "/" -> 47
      [] c = "A" -> 65
      [] c = "B" -> 66
      [] c = "C" -> 67
      [] c = "K" -> 75
      [] c = "L" -> 76
      [] c = "M" -> 77
      [] c = "N" -> 78
      [] c = "O" -> 79
      [] c = "R" -> 82
      [] c = "S" -> 83
      [] c = "T" -> 84
      [] c = "U" -> 85
      [] c = "X" -> 88
      [] c = "Y" -> 89
      [] c = "_" -> 95
      [] c = "a" -> 97
      [] c = "b" -> 98
      [] c = "r" -> 114
      [] c = "s" -> 115
      [] c = "t" -> 116
      [] c = "x" -> 120

\* s < t for Python strings
RECURSIVE StrLess(_, _)
StrLess(s, t) ==
    IF t = << >> THEN FALSE
    ELSE IF s = << >> THEN TRUE
    ELSE IF Ord(Head(s)) < Ord(Head(t)) THEN TRUE
    ELSE IF Ord(Head(s)) > Ord(Head(t)) THEN FALSE
    ELSE StrLess(Tail(s), Tail(t))

\* sorted(set)
RECURSIVE Sorted(_)
Sorted(S) ==
    IF S = {} THEN << >>
    ELSE LET m == CHOOSE x \in S : \A y \in S \ {x} : StrLess(x, y)
         IN  << m >> \o Sorted(S \ {m})

\* sep in s
Contains(s, sep) == \E i \in 1..Len(s) : s[i] = sep

\* s.split(sep)
RECURSIVE Split(_, _)
Split(s, sep) ==
    IF ~Contains(s, sep) THEN << s >>
    ELSE LET k == CHOOSE i \in 1..Len(s) :
                     s[i] = sep /\ \A j \in 1..(i - 1) : s[j] # sep
         IN  << SubSeq(s, 1, k - 1) >> \o Split(SubSeq(s, k + 1, Len(s)), sep)

\* s.split(): whitespace runs separate, empty pieces are dropped
SplitWs(s) == SelectSeq(Split(s, SPACE), LAMBDA p : p # << >>)

\* the elements of a sequence
Range(q) == {q[i] : i \in 1..Len(q)}

\* d[k] = v for a dict held as a function
Put(d, k, v) == [x \in DOMAIN d \cup {k} |-> IF x = k THEN v ELSE d[x]]

-----------------------------------------------------------------------------
(* The inputs: command lines, catalog contents, view definitions *)

\* <schema.object> arguments of the command line
FqObjects == { << "s", DOT, "a" >>, << "S", DOT, "A" >>, << "R", DOT, "B" >> }

\* what Table.sql(dialect="oracle") yields for the table references of a
\* view: the name as written (case kept), an alias after it when present
TableSqls == { << "A" >>,
               << "R", DOT, "B" >>,
               << "r", DOT, "b" >>,
               << "T", SPACE, "x" >> }

\* what Func.sql_name().upper() yields for the function calls of a view
CALC == << "C", "A", "L", "C" >>
BLOCK == << "B", "L", "O", "C", "K" >>
ANONYMOUS == << "A", "N", "O", "N", "Y", "M", "O", "U", "S" >>

FuncNameSets == { {}, {CALC, BLOCK} }

\* a view text that sqlglot parses: its Table nodes in order of appearance
\* and its Func nodes; and one that makes parse_one raise
ParsedTexts ==
    { [parses |-> TRUE, tables |-> q, funcs |-> f] :
        q \in UNION { [1..n -> TableSqls] : n \in 0..MaxDdlLen },
        f \in FuncNameSets }

BadText == [parses |-> FALSE, tables |-> << >>, funcs |-> {}]

\* ddl is None
NoText == [parses |-> FALSE, tables |-> << >>, funcs |-> {<< >>}]

\* the (OWNER, OBJECT_NAME) pairs that may have a row in ALL_OBJECTS
S_A == << << "S" >>, << "A" >> >>
R_B == << << "R" >>, << "B" >> >>
S_T == << << "S" >>, << "T" >> >>

CatalogKeys == { S_A, R_B, S_T }

Absent    == [type |-> "NONE",  text |-> NoText]
TableRow  == [type |-> "TABLE", text |-> NoText]
ViewRows  == { [type |-> "VIEW", text |-> t] : t \in ParsedTexts \cup {BadText} }

\* the rows S.A or R.B may have in a catalog whose views call the functions f
RowsCalling(f) ==
    { r \in {Absent, TableRow} \cup ViewRows : r.text.parses => r.text.funcs = f }

\* S.T is a table when it exists; S.A and R.B may be tables or views
Catalog(a, b, t) == (S_A :> a) @@ (R_B :> b) @@ (S_T :> t)

-----------------------------------------------------------------------------
(* The pure functions of oracrawl.py *)

\* both registries are written {...} in the source: a set holding only
\* Ellipsis, so no function name is a member of either
SQL_KEYWORDS == {}
ORACLE_BUILTINS == {}

classify_function(name) ==
    IF name \in SQL_KEYWORDS \/ name \in {ANONYMOUS, BLOCK}
    THEN "None"
    ELSE IF name \in ORACLE_BUILTINS THEN "BUILTIN" ELSE "UDF"

strip_alias(name) == SplitWs(name)[1]

\* extract_objects_from_sql as it would be if it collected the names in a
\* list and returned them unsorted
extract_objects_unsorted(text) ==
    IF ~text.parses
    THEN [tables |-> << >>, functions |-> {}]
    ELSE [tables    |-> [i \in 1..Len(text.tables) |-> strip_alias(text.tables[i])],
          functions |-> {f \in text.funcs : classify_function(f) = "UDF"}]

\* returns (sorted(tables), functions); functions is a dict whose values
\* are all "UDF", held as its key set
extract_objects_from_sql(text) ==
    IF ~text.parses
    THEN [tables |-> << >>, functions |-> {}]
    ELSE [tables    |-> Sorted({strip_alias(t) : t \in Range(text.tables)}),
          functions |-> {f \in text.funcs : classify_function(f) = "UDF"}]

\* the (type, ddl) pair returned for the row of (owner.upper(), name.upper())
get_object_type_and_text(cat, owner, object_name) ==
    LET key == << Upper(owner), Upper(object_name) >>
    IN  IF key \in DOMAIN cat THEN cat[key] ELSE Absent

\* fully_qualify as it would be without the test for an owner
fully_qualify_always(name, schema) == schema \o << DOT >> \o name

fully_qualify(name, schema) ==
    IF ~Contains(name, DOT) THEN schema \o << DOT >> \o name ELSE name

-----------------------------------------------------------------------------
(* The crawl *)

Init ==
    /\ \E f \in FuncNameSets :
          \E a \in RowsCalling(f), b \in RowsCalling(f), t \in {Absent, TableRow} :
              catalog = Catalog(a, b, t)
    /\ pc = "start"
    /\ fq_object = << >>
    /\ default_schema = << >>
    /\ stack = << >>
    /\ SEEN_OBJECTS = {}
    /\ found_views = {}
    /\ found_tables = {}
    /\ found_functions = {}
    /\ view_ddl_map = << >>
    /\ dependency_graph = << >>
    /\ queried = << >>
    /\ extracted = << >>
    /\ ncrawls = 0
    /\ files = << >>

\* the activation of _crawl that is inside its for loop
Frame(fq_name, ex) ==
    [fq_name |-> fq_name, tables |-> ex.tables, functions |-> ex.functions, i |-> 1]

\* crawl_enter as it would be if the not-found branch logged the error and
\* returned instead of calling sys.exit(3)
crawl_enter_no_exit(owner, object_name, callers, n) ==
    LET fq_name == owner \o << DOT >> \o object_name
        row     == get_object_type_and_text(catalog, owner, object_name)
        back    == IF callers = << >> THEN "crawled" ELSE "crawling"
    IN  IF fq_name \in SEEN_OBJECTS
        THEN /\ stack' = callers
             /\ pc' = back
             /\ UNCHANGED << SEEN_OBJECTS, queried, found_tables, found_views,
                             view_ddl_map, extracted >>
        ELSE /\ SEEN_OBJECTS' = SEEN_OBJECTS \cup {fq_name}
             /\ queried' = Append(queried, [crawl |-> n, owner |-> Upper(owner),
                                            obj |-> Upper(object_name)])
             /\ IF row.type = "NONE"
                THEN /\ pc' = back
                     /\ stack' = callers
                     /\ UNCHANGED << found_tables, found_views, view_ddl_map,
                                     extracted >>
                ELSE IF row.type = "TABLE"
                THEN /\ found_tables' = found_tables \cup {fq_name}
                     /\ stack' = callers
                     /\ pc' = back
                     /\ UNCHANGED << found_views, view_ddl_map, extracted >>
                ELSE /\ view_ddl_map' = Put(view_ddl_map, fq_name, row.text)
                     /\ found_views' = found_views \cup {fq_name}
                     /\ extracted' = Append(extracted, fq_name)
                     /\ stack' = << Frame(fq_name, extract_objects_from_sql(row.text)) >>
                                    \o callers
                     /\ pc' = "crawling"
                     /\ UNCHANGED found_tables

\* _crawl(conn, owner, object_name, default_schema) from its entry to its
\* first return, exit or loop iteration; callers is the stack below it and
\* n the number of the crawl_object call it belongs to
crawl_enter(owner, object_name, callers, n) ==
    LET fq_name == owner \o << DOT >> \o object_name
        row     == get_object_type_and_text(catalog, owner, object_name)
        back    == IF callers = << >> THEN "crawled" ELSE "crawling"
    IN  IF fq_name \in SEEN_OBJECTS
        THEN /\ stack' = callers
             /\ pc' = back
             /\ UNCHANGED << SEEN_OBJECTS, queried, found_tables, found_views,
                             view_ddl_map, extracted >>
        ELSE /\ SEEN_OBJECTS' = SEEN_OBJECTS \cup {fq_name}
             /\ queried' = Append(queried, [crawl |-> n, owner |-> Upper(owner),
                                            obj |-> Upper(object_name)])
             /\ IF row.type = "NONE"
                THEN /\ pc' = "exit3"
                     /\ stack' = callers
                     /\ UNCHANGED << found_tables, found_views, view_ddl_map,
                                     extracted >>
                ELSE IF row.type = "TABLE"
                THEN /\ found_tables' = found_tables \cup {fq_name}
                     /\ stack' = callers
                     /\ pc' = back
                     /\ UNCHANGED << found_views, view_ddl_map, extracted >>
                ELSE /\ view_ddl_map' = Put(view_ddl_map, fq_name, row.text)
                     /\ found_views' = found_views \cup {fq_name}
                     /\ extracted' = Append(extracted, fq_name)
                     /\ stack' = << Frame(fq_name, extract_objects_from_sql(row.text)) >>
                                    \o callers
                     /\ pc' = "crawling"
                     /\ UNCHANGED found_tables

crawl_object(fq) ==
    /\ pc \in {"start", "crawled"}
    /\ ncrawls < MaxCrawls
    /\ LET parts == Split(fq, DOT)
       IN  /\ fq_object' = fq
           /\ ncrawls' = ncrawls + 1
           /\ default_schema' = Upper(parts[1])
           /\ crawl_enter(Upper(parts[1]), Upper(parts[2]), << >>, ncrawls + 1)
    /\ UNCHANGED << catalog, found_functions, dependency_graph, files >>

\* one iteration of the for loop of the innermost _crawl
crawl_loop ==
    /\ pc = "crawling"
    /\ stack # << >>
    /\ LET top == Head(stack)
       IN  /\ top.i <= Len(top.tables)
           /\ LET t       == top.tables[top.i]
                  fq      == fully_qualify(t, default_schema)
                  edges   == IF top.fq_name \in DOMAIN dependency_graph
                             THEN dependency_graph[top.fq_name] ELSE << >>
                  callers == << [top EXCEPT !.i = top.i + 1] >> \o Tail(stack)
                  parts   == Split(fq, DOT)
              IN  /\ dependency_graph' =
                         Put(dependency_graph, top.fq_name, Append(edges, fq))
                  /\ IF Upper(fq) # Upper(top.fq_name)
                     THEN IF Len(parts) = 2
                          THEN crawl_enter(parts[1], parts[2], callers, ncrawls)
                          ELSE /\ pc' = "crash"
                               /\ stack' = callers
                               /\ UNCHANGED << SEEN_OBJECTS, queried, found_tables,
                                               found_views, view_ddl_map, extracted >>
                     ELSE /\ stack' = callers
                          /\ UNCHANGED << pc, SEEN_OBJECTS, queried, found_tables,
                                          found_views, view_ddl_map, extracted >>
    /\ UNCHANGED << catalog, fq_object, default_schema, found_functions,
                    ncrawls, files >>

\* the for loop of the innermost _crawl is over: update found_functions, return
crawl_return ==
    /\ pc = "crawling"
    /\ stack # << >>
    /\ LET top == Head(stack)
       IN  /\ top.i > Len(top.tables)
           /\ found_functions' = found_functions \cup top.functions
           /\ stack' = Tail(stack)
           /\ pc' = IF Tail(stack) = << >> THEN "crawled" ELSE "crawling"
    /\ UNCHANGED << catalog, fq_object, default_schema, SEEN_OBJECTS, found_views,
                    found_tables, view_ddl_map, dependency_graph, queried,
                    extracted, ncrawls, files >>

-----------------------------------------------------------------------------
(* The tree renderer and the artifact writers *)

\* dependency_graph.get(node, [])
Children(g, node) == IF node \in DOMAIN g THEN g[node] ELSE << >>

\* the nodes _walk reaches below the nodes of frontier
RECURSIVE Below(_, _, _)
Below(g, frontier, acc) ==
    LET next == UNION { Range(Children(g, n)) : n \in frontier } \ acc
    IN  IF next = {} THEN acc ELSE Below(g, next, acc \cup next)

Descendants(g, node) == Below(g, {node}, {})

\* _walk(node) never returns: some node it reaches is its own descendant
WalkOverflows(g, node) ==
    \E m \in {node} \cup Descendants(g, node) : m \in Descendants(g, m)

\* the two markers and the two indent units, in ASCII
CORNER == "+-- "
BRANCH == "|-- "
BLANK  == "    "
BAR    == "|   "

\* the lines _walk(node, prefix, is_last) appends
RECURSIVE Walk(_, _, _, _)
Walk(g, node, prefix, is_last) ==
    LET children   == Children(g, node)
        new_prefix == prefix \o << IF is_last THEN BLANK ELSE BAR >>
        line       == prefix \o << IF is_last THEN CORNER ELSE BRANCH >> \o node
        RECURSIVE Rest(_)
        Rest(i) == IF i > Len(children) THEN << >>
                   ELSE Walk(g, children[i], new_prefix, i = Len(children))
                          \o Rest(i + 1)
    IN  << line >> \o Rest(1)

\* the node a line ends with, and the number of indent units before its marker
MarkerAt(line) == CHOOSE i \in 1..Len(line) : line[i] \in {CORNER, BRANCH}
LineNode(line) == SubSeq(line, MarkerAt(line) + 1, Len(line))
LineDepth(line) == MarkerAt(line) - 1

\* the lines of q that are the first one for their node
RECURSIVE FirstLines(_, _)
FirstLines(q, had) ==
    IF q = << >> THEN << >>
    ELSE IF LineNode(Head(q)) \in had THEN FirstLines(Tail(q), had)
    ELSE << Head(q) >> \o FirstLines(Tail(q), had \cup {LineNode(Head(q))})

\* render_tree as it would be if _walk skipped a node it has already rendered
render_tree_visited_once(g, fq_view) == FirstLines(Walk(g, fq_view, << >>, TRUE), {})

\* the lines of render_tree(fq_view), before "\n".join
render_tree(g, fq_view) == Walk(g, fq_view, << >>, TRUE)

SanitizeChar(c) ==
    CASE c = "." -> << "_", "_" >>
      [] c = "$" -> << "_" >>
      [] c = "/" -> << "_" >>
      [] OTHER   -> << c >>

RECURSIVE sanitize_filename(_)
sanitize_filename(fq_name) ==
    IF fq_name = << >> THEN << >>
    ELSE SanitizeChar(Head(fq_name)) \o sanitize_filename(Tail(fq_name))

\* os.path.join(output_dir, name) with output_dir = output/<fq_object>
Path(name) == [dir |-> fq_object, name |-> name]

write_view_ddls ==
    /\ pc = "crawled"
    /\ files' = [ f \in DOMAIN files \cup
                         { Path(sanitize_filename(k) \o << ".sql" >>) :
                             k \in DOMAIN view_ddl_map } |->
                  IF \E k \in DOMAIN view_ddl_map :
                        f = Path(sanitize_filename(k) \o << ".sql" >>)
                  THEN LET k == CHOOSE k \in DOMAIN view_ddl_map :
                                   f = Path(sanitize_filename(k) \o << ".sql" >>)
                       IN  [ddl |-> view_ddl_map[k]]
                  ELSE files[f] ]
    /\ pc' = "ddls_written"
    /\ UNCHANGED << catalog, fq_object, default_schema, stack, SEEN_OBJECTS,
                    found_views, found_tables, found_functions, view_ddl_map,
                    dependency_graph, queried, extracted, ncrawls >>

write_summary ==
    /\ pc = "ddls_written"
    /\ files' = Put(files, Path(<< "summary.txt" >>),
                    [views  |-> Sorted(found_views),
                     udfs   |-> Sorted(found_functions),
                     tables |-> Sorted(found_tables)])
    /\ pc' = "summary_written"
    /\ UNCHANGED << catalog, fq_object, default_schema, stack, SEEN_OBJECTS,
                    found_views, found_tables, found_functions, view_ddl_map,
                    dependency_graph, queried, extracted, ncrawls >>

\* open() creates tree.txt before render_tree runs; a RecursionError leaves
\* it empty and ends the program
write_tree ==
    /\ pc = "summary_written"
    /\ IF WalkOverflows(dependency_graph, fq_object)
       THEN /\ files' = Put(files, Path(<< "tree.txt" >>), [lines |-> << >>])
            /\ pc' = "crash"
       ELSE /\ files' = Put(files, Path(<< "tree.txt" >>),
                            [lines |-> render_tree(dependency_graph, fq_object)])
            /\ pc' = "exit0"
    /\ UNCHANGED << catalog, fq_object, default_schema, stack, SEEN_OBJECTS,
                    found_views, found_tables, found_functions, view_ddl_map,
                    dependency_graph, queried, extracted, ncrawls >>

-----------------------------------------------------------------------------

Next ==
    \/ \E fq \in FqObjects : crawl_object(fq)
    \/ crawl_loop
    \/ crawl_return
    \/ write_view_ddls
    \/ write_summary
    \/ write_tree

Spec == Init /\ [][Next]_vars

-----------------------------------------------------------------------------
(* Vocabulary of the properties *)

\* the ALL_OBJECTS key a recorded fq_name denotes
KeyOf(fq_name) == << Upper(Split(fq_name, DOT)[1]), Upper(Split(fq_name, DOT)[2]) >>

RowOf(fq_name) == IF KeyOf(fq_name) \in DOMAIN catalog THEN catalog[KeyOf(fq_name)]
                  ELSE Absent

\* the catalog row a logged query asked for
RowAsked(q) == IF << q.owner, q.obj >> \in DOMAIN catalog
               THEN catalog[<< q.owner, q.obj >>] ELSE Absent

\* every fq_name that is a key or an edge target of dependency_graph
GraphNodes ==
    DOMAIN dependency_graph
      \cup UNION { Range(dependency_graph[k]) : k \in DOMAIN dependency_graph }

\* every identity the crawl has recorded
Recorded == SEEN_OBJECTS \cup found_tables \cup found_views \cup GraphNodes

\* number of queries of crawl n for the ALL_OBJECTS key k
TimesQueried(n, k) ==
    Cardinality({ i \in DOMAIN queried :
                    queried[i].crawl = n /\ << queried[i].owner, queried[i].obj >> = k })

-----------------------------------------------------------------------------
(* C1 *)

\* C1: during a single crawl no object is looked up in the catalog twice,
\* and once the crawl has returned every object it reached (the root and
\* every edge target) was looked up exactly once.
C1_QueriedExactlyOnce ==
    /\ \A k \in CatalogKeys : TimesQueried(1, k) <= 1
    /\ (pc = "crawled" /\ ncrawls = 1) =>
          \A x \in GraphNodes \cup {Upper(fq_object)} : TimesQueried(1, KeyOf(x)) = 1

(* C6 *)

\* C6: every recorded identity is the upper-cased owner.name, so two
\* recorded identities that differ only in letter case are the same one.
C6_IdentitiesUpperCased ==
    /\ \A x \in Recorded : x = Upper(x)
    /\ \A x, y \in Recorded : Upper(x) = Upper(y) => x = y

(* C2 *)

\* dependency_graph between the objects its fq_names denote
NormGraph ==
    [ n \in { Upper(k) : k \in DOMAIN dependency_graph } |->
        Sorted(UNION { { Upper(t) : t \in Range(dependency_graph[k]) } :
                         k \in { k \in DOMAIN dependency_graph : Upper(k) = n } }) ]

OnCycle(fq_name) == Upper(fq_name) \in Descendants(NormGraph, Upper(fq_name))

\* C2: when the crawl has returned, each view that lies on a cycle of view
\* definitions is in found_views exactly once.
C2_CycleViewsFoundOnce ==
    (pc = "crawled" /\ ncrawls = 1) =>
        \A v \in found_views :
            OnCycle(v) => Cardinality({ w \in found_views : KeyOf(w) = KeyOf(v) }) = 1

(* C3 *)

\* C3: a lookup that finds no row ends the program with exit code 3: it is
\* the last lookup ever made, and no artifact is written.
C3_NotFoundAborts ==
    /\ \A i \in DOMAIN queried :
          RowAsked(queried[i]).type = "NONE" =>
              /\ pc = "exit3"
              /\ i = Len(queried)
              /\ files = << >>
    /\ pc = "exit3" =>
          /\ queried # << >>
          /\ RowAsked(queried[Len(queried)]).type = "NONE"

\* a transitively discovered object is missing after another branch was
\* fully resolved
C3_Witness ==
    /\ pc = "exit3"
    /\ Len(queried) >= 3
    /\ found_tables # {}

(* C4 *)

\* C4: after a crawl that returned, no node of dependency_graph reaches
\* itself through one or more edges.
C4_GraphAcyclic ==
    pc = "crawled" => \A n \in GraphNodes : n \notin Descendants(dependency_graph, n)

(* C5 *)

\* C5: the accumulators are empty whenever crawl_object is called.
C5_FreshPerCrawl ==
    [][ ncrawls' # ncrawls =>
          /\ SEEN_OBJECTS = {}
          /\ found_tables = {}
          /\ found_views = {}
          /\ found_functions = {}
          /\ view_ddl_map = << >>
          /\ dependency_graph = << >> ]_vars

(* C7 *)

\* C7: each edge appended for an unqualified name has the upper-cased owner
\* given on the command line as owner and that name as name; each edge
\* appended for a qualified name is that name unchanged.
C7_UnqualifiedGetsRootSchema ==
    [][ \A k \in DOMAIN dependency_graph' :
          LET old == Children(dependency_graph, k)
              new == dependency_graph'[k]
          IN  Len(new) > Len(old) =>
                LET name == Head(stack).tables[Head(stack).i]
                    edge == new[Len(new)]
                IN  IF Contains(name, DOT)
                    THEN edge = name
                    ELSE Split(edge, DOT) = << Upper(Split(fq_object, DOT)[1]), name >>
      ]_vars

\* a view owned by R, reached from the root s.a, refers to T unqualified and
\* the edge recorded is S.T
C7_Witness ==
    /\ fq_object = << "s", DOT, "a" >>
    /\ \E k \in DOMAIN dependency_graph :
          /\ Upper(Split(k, DOT)[1]) = << "R" >>
          /\ << "S", DOT, "T" >> \in Range(dependency_graph[k])

(* C8 *)

\* the alias-stripped names of the Table nodes of view X
StrippedNames(X) ==
    IF view_ddl_map[X].parses
    THEN { strip_alias(t) : t \in Range(view_ddl_map[X].tables) }
    ELSE {}

\* the names of q, each once, in order of first appearance
RECURSIVE FirstAppearances(_, _)
FirstAppearances(q, had) ==
    IF q = << >> THEN << >>
    ELSE IF Head(q) \in had THEN FirstAppearances(Tail(q), had)
    ELSE << Head(q) >> \o FirstAppearances(Tail(q), had \cup {Head(q)})

\* edge is what name is recorded as
Records(edge, name) ==
    IF Contains(name, DOT) THEN edge = name
    ELSE Len(Split(edge, DOT)) = 2 /\ Split(edge, DOT)[2] = name

\* C8 as stated: dependency_graph[X] lists the references of X in the order
\* in which they appear in its definition.
C8_AppearanceOrder ==
    pc = "crawled" =>
        \A X \in found_views :
            LET edges == Children(dependency_graph, X)
                names == IF view_ddl_map[X].parses
                         THEN FirstAppearances(
                                [i \in 1..Len(view_ddl_map[X].tables) |->
                                    strip_alias(view_ddl_map[X].tables[i])], {})
                         ELSE << >>
            IN  /\ Len(edges) = Len(names)
                /\ \A i \in 1..Len(edges) : Records(edges[i], names[i])

\* C8 amended: dependency_graph[X] has one edge for each distinct
\* alias-stripped name referenced by X, in ascending code-point order of
\* those names.
C8_SortedOrder ==
    pc = "crawled" =>
        \A X \in found_views :
            LET edges == Children(dependency_graph, X)
                names == StrippedNames(X)
            IN  /\ Len(edges) = Cardinality(names)
                /\ \A n \in names :
                      Records(edges[1 + Cardinality({ m \in names : StrLess(m, n) })], n)

\* a view whose definition names T before A has been expanded
C8_Witness ==
    /\ pc = "crawled"
    /\ \E X \in found_views :
          /\ view_ddl_map[X].tables = << << "T", SPACE, "x" >>, << "A" >> >>
          /\ Len(Children(dependency_graph, X)) = 2

(* C9 *)

\* C9: for an object whose row says TABLE, extract_objects_from_sql never
\* runs, the catalog is never queried twice, and dependency_graph has no key.
C9_TablesNeverExpanded ==
    /\ \A i \in DOMAIN extracted : RowOf(extracted[i]).type # "TABLE"
    /\ \A i, j \in DOMAIN queried :
          ( /\ i # j
            /\ queried[i].owner = queried[j].owner
            /\ queried[i].obj = queried[j].obj ) => RowAsked(queried[i]).type # "TABLE"
    /\ \A k \in DOMAIN dependency_graph : RowOf(k).type # "TABLE"

(* C10 *)

\* C10: when a crawl has returned, found_tables and found_views share no
\* member and no object, and together they are SEEN_OBJECTS.
C10_Partition ==
    pc = "crawled" =>
        /\ found_tables \cap found_views = {}
        /\ \A t \in found_tables : \A v \in found_views : KeyOf(t) # KeyOf(v)
        /\ found_tables \cup found_views = SEEN_OBJECTS

C10_Witness ==
    /\ pc = "crawled"
    /\ found_tables # {}
    /\ Cardinality(found_views) >= 2

(* C11 *)

\* the paths of g from node, each as the sequence of child positions taken
RECURSIVE Paths(_, _)
Paths(g, node) ==
    {<< >>} \cup
    UNION { { << i >> \o p : p \in Paths(g, Children(g, node)[i]) } :
              i \in 1..Len(Children(g, node)) }

\* the node path p ends at
RECURSIVE NodeAt(_, _, _)
NodeAt(g, node, p) ==
    IF p = << >> THEN node ELSE NodeAt(g, Children(g, node)[Head(p)], Tail(p))

\* p comes before q in depth-first pre-order
RECURSIVE Before(_, _)
Before(p, q) ==
    IF q = << >> THEN FALSE
    ELSE IF p = << >> THEN TRUE
    ELSE IF Head(p) # Head(q) THEN Head(p) < Head(q)
    ELSE Before(Tail(p), Tail(q))

TreeLines == files[Path(<< "tree.txt" >>)].lines

\* C11: the tree written for an acyclic graph has one line per path from
\* the root, in depth-first pre-order with children in dependency_graph
\* order; so a node that k paths end at is on k lines.
C11_OneLinePerPath ==
    pc = "exit0" =>
        LET P == Paths(dependency_graph, fq_object)
        IN  /\ Len(TreeLines) = Cardinality(P)
            /\ \A p \in P :
                  LET line == TreeLines[1 + Cardinality({ q \in P : Before(q, p) })]
                  IN  /\ LineNode(line) = NodeAt(dependency_graph, fq_object, p)
                      /\ LineDepth(line) = Len(p)
            /\ \A n \in GraphNodes \cup {fq_object} :
                  Cardinality({ i \in 1..Len(TreeLines) : LineNode(TreeLines[i]) = n })
                    = Cardinality({ p \in P : NodeAt(dependency_graph, fq_object, p) = n })

\* a tree was written in which some object is on two lines
C11_Witness ==
    /\ pc = "exit0"
    /\ \E i, j \in 1..Len(TreeLines) :
          i < j /\ LineNode(TreeLines[i]) = LineNode(TreeLines[j])

(* C12 *)

\* C12: when the main program has crawled its root and written the tree,
\* every found table and every found view is the node of some line of it.
C12_TreeCoversFound ==
    (pc = "exit0" /\ ncrawls = 1) =>
        \A x \in found_tables \cup found_views :
            \E i \in 1..Len(TreeLines) : LineNode(TreeLines[i]) = x

====
